---- MODULE Spec2Model ----
(***************************************************************************)
(* Model of utilityjs/file (src/src/file.ts): thin wrappers over the Deno  *)
(* filesystem primitives, and the composite unZipFromURL operation.        *)
(*                                                                         *)
(* A path is a sequence of names; the root <<>> always exists.  The        *)
(* filesystem fs maps every existing path to an entry (directory or file   *)
(* with its data, a sequence of chunks).  denied is the set of directories *)
(* the process has no permission to look into.                             *)
(***************************************************************************)
EXTENDS Naturals, Integers, Sequences, FiniteSets, TLC

\* ------------------------------------------------------------------ bounds
MaxStarts == 2      \* unZipFromURL calls started in one behaviour
MaxOps == 2         \* wrapper operations performed in one behaviour

Calls == {"c1", "c2"}

\* ------------------------------------------------------------- filesystem
TempName == "_temp_.zip"

Dir == [kind |-> "dir", data |-> <<>>]
File(d) == [kind |-> "file", data |-> d]

Prefix(p, n) == SubSeq(p, 1, n)
Parent(p) == SubSeq(p, 1, Len(p) - 1)
IsPrefixOf(a, p) == Len(a) <= Len(p) /\ SubSeq(p, 1, Len(a)) = a

IsDir(f, p) == p = <<>> \/ (p \in DOMAIN f /\ f[p].kind = "dir")
IsFile(f, p) == p \in DOMAIN f /\ f[p].kind = "file"

Put(f, p, e) == [q \in DOMAIN f \cup {p} |-> IF q = p THEN e ELSE f[q]]
Del(f, p) == [q \in DOMAIN f \ {p} |-> f[q]]

\* The error of walking down to the directory that holds p: the first
\* component that is missing, is not a directory, or may not be searched.
LookupError(f, den, p) ==
  LET bad == {i \in 1..(Len(p) - 1) :
                \/ Prefix(p, i) \notin DOMAIN f
                \/ f[Prefix(p, i)].kind # "dir"
                \/ Prefix(p, i) \in den}
  IN IF bad = {} THEN "none"
     ELSE LET i == CHOOSE j \in bad : \A k \in bad : j <= k
              a == Prefix(p, i)
          IN IF a \notin DOMAIN f THEN "NotFound"
             ELSE IF f[a].kind # "dir" THEN "NotADirectory"
             ELSE "PermissionDenied"

\* Deno.stat(path): "none" when the path exists, else the error kind.
DenoStat(f, den, p) ==
  LET e == LookupError(f, den, p)
  IN IF e # "none" THEN e
     ELSE IF p = <<>> \/ p \in DOMAIN f THEN "none"
     ELSE "NotFound"

\* Deno.mkdir(path)
DenoMkdir(f, den, p) ==
  LET e == LookupError(f, den, p)
  IN IF e # "none" THEN [err |-> e, fs |-> f]
     ELSE IF p = <<>> \/ p \in DOMAIN f THEN [err |-> "AlreadyExists", fs |-> f]
     ELSE [err |-> "none", fs |-> Put(f, p, Dir)]

\* Deno.mkdir(path, {recursive: true}): every missing component is created;
\* an existing directory is accepted; an existing file on the way is not.
DenoMkdirRecursive(f, den, p) ==
  LET bad == {i \in 1..Len(p) :
                \/ (Prefix(p, i) \in DOMAIN f /\ f[Prefix(p, i)].kind # "dir")
                \/ (i < Len(p) /\ Prefix(p, i) \in den)}
  IN IF bad # {}
     THEN LET i == CHOOSE j \in bad : \A k \in bad : j <= k
              a == Prefix(p, i)
          IN [err |-> IF f[a].kind # "dir"
                      THEN (IF i = Len(p) THEN "AlreadyExists" ELSE "NotADirectory")
                      ELSE "PermissionDenied",
              fs |-> f]
     ELSE [err |-> "none",
           fs |-> [q \in DOMAIN f \cup {Prefix(p, i) : i \in 1..Len(p)} |->
                     IF q \in DOMAIN f THEN f[q] ELSE Dir]]

\* Deno.remove(path): a file or an empty directory.
DenoRemove(f, den, p) ==
  LET e == LookupError(f, den, p)
  IN IF e # "none" THEN [err |-> e, fs |-> f]
     ELSE IF p \notin DOMAIN f THEN [err |-> "NotFound", fs |-> f]
     ELSE IF f[p].kind = "dir" /\ (\E q \in DOMAIN f : q # p /\ IsPrefixOf(p, q))
       THEN [err |-> "DirectoryNotEmpty", fs |-> f]
     ELSE [err |-> "none", fs |-> Del(f, p)]

\* Deno.open(path, {write: true, create: true}): creates an empty file when
\* there is none, and keeps (does not truncate) an existing one.
DenoOpen(f, den, p) ==
  LET e == LookupError(f, den, p)
  IN IF e # "none" THEN [err |-> e, fs |-> f]
     ELSE IF p \in DOMAIN f /\ f[p].kind = "dir" THEN [err |-> "IsADirectory", fs |-> f]
     ELSE IF p \in DOMAIN f THEN [err |-> "none", fs |-> f]
     ELSE [err |-> "none", fs |-> Put(f, p, File(<<>>))]

\* One write of chunk ch at offset off (0-based) through an open file.
WriteAt(d, off, ch) ==
  [i \in 1..(IF Len(d) > off THEN Len(d) ELSE off + 1) |->
     IF i = off + 1 THEN ch ELSE d[i]]

\* Deno.readTextFile(path)
DenoReadTextFile(f, den, p) ==
  LET e == LookupError(f, den, p)
  IN IF e # "none" THEN [err |-> e, val |-> <<>>]
     ELSE IF p = <<>> THEN [err |-> "IsADirectory", val |-> <<>>]
     ELSE IF p \notin DOMAIN f THEN [err |-> "NotFound", val |-> <<>>]
     ELSE IF f[p].kind = "dir" THEN [err |-> "IsADirectory", val |-> <<>>]
     ELSE [err |-> "none", val |-> f[p].data]

\* Deno.writeTextFile(path, content): the file is created when missing and
\* its contents are replaced; no directory is created.
DenoWriteTextFile(f, den, p, c) ==
  LET e == LookupError(f, den, p)
  IN IF e # "none" THEN [err |-> e, fs |-> f]
     ELSE IF p = <<>> \/ (p \in DOMAIN f /\ f[p].kind = "dir")
       THEN [err |-> "IsADirectory", fs |-> f]
     ELSE [err |-> "none", fs |-> Put(f, p, File(c))]

\* A text is a sequence of tokens.  JSON.parse accepts the texts
\* { title } and yields the object with that title; anything else is a
\* SyntaxError.  JSON.stringify writes an object back as its text.
Titles == {"a", "b", "Write"}
NoObject == [title |-> "none"]
JSONparse(t) ==
  IF Len(t) = 3 /\ t[1] = "{" /\ t[3] = "}" /\ t[2] \in Titles
  THEN [err |-> "none", val |-> [title |-> t[2]]]
  ELSE [err |-> "SyntaxError", val |-> NoObject]
JSONstringify(o) == <<"{", o.title, "}">>

\* ------------------------------------------------------------ environment
\* What fetch(downloadUrl.href) yields for each URL of the model.
Urls == {"a.zip", "b.zip", "empty", "down", "flaky"}
FetchFails(u) == u = "down"
HasBody(u) == u # "empty"
Body(u) ==
  IF u = "b.zip" THEN <<"B1">>
  ELSE IF u \in {"a.zip", "flaky"} THEN <<"A1", "A2">>
  ELSE <<>>
\* the number of chunks after which the body stream of u errors (-1: never)
StreamFailsAt(u) == IF u = "flaky" THEN 1 ELSE -1

\* The members of a zip archive, by the bytes of the archive file; a file
\* that is not exactly an archive has none and cannot be extracted.
IsArchive(d) == d \in {<<"A1", "A2">>, <<"B1">>}
Entries(d) ==
  IF d = <<"A1", "A2">>
  THEN {[rel |-> <<"path", "a.json">>, data |-> <<"{", "a", "}">>],
        [rel |-> <<"sample.txt">>, data |-> <<"Hello">>]}
  ELSE IF d = <<"B1">> THEN {[rel |-> <<"b.txt">>, data |-> <<"b">>]}
  ELSE {}

\* The filesystem after the members es are extracted under directory d:
\* missing directories are made, existing files are kept.
Extract(f, d, es) ==
  LET files == {d \o e.rel : e \in es}
      dirs == UNION {{Prefix(q, i) : i \in 1..(Len(q) - 1)} : q \in files}
      mk == {q \in dirs : Len(q) > Len(d)}
  IN [q \in DOMAIN f \cup files \cup mk |->
        IF q \in DOMAIN f THEN f[q]
        ELSE IF q \in mk THEN Dir
        ELSE File((CHOOSE e \in es : d \o e.rel = q).data)]

\* ------------------------------------------------------------------ state
VARIABLES fs, denied, os, installed,
          started, pc, downloadUrl, destinationPath, offset, orphan,
          success, err, trace, created,
          log

fsVars == <<fs, denied>>
envVars == <<os, installed>>
callVars == <<started, pc, downloadUrl, destinationPath, offset, orphan,
              success, err, trace, created>>
opVars == <<log>>
vars == <<fsVars, envVars, callVars, opVars>>

Dests == {<<"d">>, <<"p", "d">>}

NoFs == [q \in {} |-> Dir]
\* the filesystems a behaviour may start from, each with its denied set
Worlds ==
  { [fs |-> NoFs, denied |-> {}],
    [fs |-> (<<"d">> :> Dir), denied |-> {}],
    [fs |-> (<<"d">> :> Dir) @@ (<<"d", TempName>> :> File(<<"A1", "A2">>)),
     denied |-> {}],
    [fs |-> (<<"p">> :> File(<<"x">>)), denied |-> {}],
    [fs |-> (<<"p">> :> Dir) @@ (<<"p", "d">> :> Dir), denied |-> {<<"p">>}] }

\* ------------------------------------------------------------ the program
\* (variant) every failure of the stat is reported as "does not exist"
existsSwallowing(f, den, p) ==
  [ret |-> DenoStat(f, den, p) = "none", err |-> "none"]

\* exists(path): true when the stat succeeds, false on NotFound, and any
\* other error is thrown again
exists(f, den, p) ==
  LET s == DenoStat(f, den, p)
  IN IF s = "none" THEN [ret |-> TRUE, err |-> "none"]
     ELSE IF s = "NotFound" THEN [ret |-> FALSE, err |-> "none"]
     ELSE [ret |-> FALSE, err |-> s]

\* (variant) the recursive option is left out
mkdirNotRecursive(f, den, p) == DenoMkdir(f, den, p)

\* mkdirRecursive(path)
mkdirRecursive(f, den, p) == DenoMkdirRecursive(f, den, p)

\* (variant) the temporary name is not joined to the destination
TempFilePathUnjoined(d) == <<TempName>>

\* path.join(destinationPath, "_temp_.zip")
TempFilePath(d) == Append(d, TempName)

\* the command unZip runs on each platform
UnzipCommand(o) == IF o = "windows" THEN "PowerShell" ELSE "unzip"

\* (variant) the temporary file is opened before the response is looked at
AwaitOrderOpenFirst ==
  <<"exists", "mkdirRecursive", "open", "fetch", "pipeTo", "unZip", "remove">>

\* The awaits of unZipFromURL (with __downloadFileToTemp inlined), in program
\* order.
AwaitOrder ==
  <<"exists", "mkdirRecursive", "fetch", "open", "pipeTo", "unZip", "remove">>

After(step) ==
  LET i == CHOOSE j \in 1..Len(AwaitOrder) : AwaitOrder[j] = step
  IN IF i = Len(AwaitOrder) THEN "done" ELSE AwaitOrder[i + 1]

\* if (!await exists(destinationPath)) await mkdirRecursive(destinationPath)
AfterExists(found) ==
  IF found THEN After("mkdirRecursive") ELSE "mkdirRecursive"

\* (variant) the temporary file is removed only after a successful extraction
AfterUnZipOnlyOnSuccess(ok) == IF ok THEN After("unZip") ELSE "done"

\* (variant) an unsuccessful extraction is turned into an error
AfterUnZipRaising(ok) == IF ok THEN After("unZip") ELSE "raised"

\* await unZip(tempFilePath, destinationPath): the result is dropped
AfterUnZip(ok) == After("unZip")

\* (variant) the body of the response is not checked
FetchOutcomeUnchecked(u) == IF FetchFails(u) THEN "TypeError" ELSE "none"

\* const response = await fetch(downloadUrl.href);
\* if (!response.body) throw new Error("Response body is null")
FetchOutcome(u) ==
  IF FetchFails(u) THEN "TypeError"
  ELSE IF ~HasBody(u) THEN "Response body is null"
  ELSE "none"

\* (variant) best-effort cleanup: a failure of the final remove is swallowed
AfterRemoveSuppressed(e) == After("remove")

\* a failure of the final Deno.remove is not caught
AfterRemove(e) == IF e = "none" THEN After("remove") ELSE "raised"

tempFilePath(c) == TempFilePath(destinationPath[c])

\* (variant) try/finally: an error of the download or of unZip still goes
\* through the removal of the temporary file
OnRaiseWithCleanup(name) ==
  IF name \in {"pipeTo", "unZip"} THEN "remove" ELSE "raised"

\* unZipFromURL has no try/catch/finally: an error raised by the await name
\* ends the call there
OnRaise(name) == "raised"

Step(c, name, next, e) ==
  /\ pc' = [pc EXCEPT ![c] = IF e = "none" THEN next ELSE OnRaise(name)]
  /\ err' = [err EXCEPT ![c] = e]
  /\ trace' = [trace EXCEPT ![c] = Append(@, name)]

InitOps == log = <<>>

InitCalls ==
  /\ started = 0
  /\ pc = [c \in Calls |-> "idle"]
  /\ downloadUrl = [c \in Calls |-> "none"]
  /\ destinationPath = [c \in Calls |-> <<>>]
  /\ offset = [c \in Calls |-> 0]
  /\ orphan = [c \in Calls |-> FALSE]
  /\ success = [c \in Calls |-> "unset"]
  /\ err = [c \in Calls |-> "none"]
  /\ trace = [c \in Calls |-> <<>>]
  /\ created = [c \in Calls |-> {}]

\* The platform is either one; only unzip is installed, so that on windows
\* the command of unZip cannot be launched.
Init ==
  /\ \E w \in Worlds : fs = w.fs /\ denied = w.denied
  /\ os \in {"linux", "windows"}
  /\ installed = {"unzip"}
  /\ InitCalls
  /\ InitOps

\* unZipFromURL(u, d) is called
Start(c, u, d) ==
  /\ pc[c] = "idle"
  /\ started < MaxStarts
  /\ started' = started + 1
  /\ pc' = [pc EXCEPT ![c] = AwaitOrder[1]]
  /\ downloadUrl' = [downloadUrl EXCEPT ![c] = u]
  /\ destinationPath' = [destinationPath EXCEPT ![c] = d]
  /\ UNCHANGED <<fsVars, envVars, opVars, offset, orphan, success, err, trace, created>>

\* the same, by a caller that serialises the calls on one destination
StartAlone(c, u, d) ==
  /\ \A o \in Calls \ {c} : pc[o] = "idle" \/ destinationPath[o] # d
  /\ Start(c, u, d)

\* await exists(destinationPath)
ExistsStep(c) ==
  /\ pc[c] = "exists"
  /\ LET r == exists(fs, denied, destinationPath[c])
     IN Step(c, "exists", AfterExists(r.ret), r.err)
  /\ UNCHANGED <<fsVars, envVars, opVars, started, downloadUrl, destinationPath,
                 offset, orphan, success, created>>

\* await mkdirRecursive(destinationPath)
MkdirStep(c) ==
  /\ pc[c] = "mkdirRecursive"
  /\ LET r == mkdirRecursive(fs, denied, destinationPath[c])
     IN /\ Step(c, "mkdirRecursive", After("mkdirRecursive"), r.err)
        /\ fs' = r.fs
        /\ created' = [created EXCEPT ![c] = @ \cup (DOMAIN r.fs \ DOMAIN fs)]
  /\ UNCHANGED <<denied, envVars, opVars, started, downloadUrl, destinationPath,
                 offset, orphan, success>>

\* the fetch and the check of the response's body
FetchStep(c) ==
  /\ pc[c] = "fetch"
  /\ Step(c, "fetch", After("fetch"), FetchOutcome(downloadUrl[c]))
  /\ UNCHANGED <<fsVars, envVars, opVars, started, downloadUrl, destinationPath,
                 offset, orphan, success, created>>

\* const file = await Deno.open(tempFilePath, {write: true, create: true})
OpenStep(c) ==
  /\ pc[c] = "open"
  /\ LET r == DenoOpen(fs, denied, tempFilePath(c))
     IN /\ Step(c, "open", After("open"), r.err)
        /\ fs' = r.fs
        /\ created' = [created EXCEPT ![c] = @ \cup (DOMAIN r.fs \ DOMAIN fs)]
  /\ offset' = [offset EXCEPT ![c] = 0]
  /\ orphan' = [orphan EXCEPT ![c] = FALSE]
  /\ UNCHANGED <<denied, envVars, opVars, started, downloadUrl, destinationPath, success>>

\* await response.body.pipeTo(file.writable): one chunk of the body is
\* written at the file's own offset; the stream may error instead; after the
\* last chunk the file is closed and the call goes on.
PipeStep(c) ==
  /\ pc[c] = "pipeTo"
  /\ LET u == downloadUrl[c]
         t == tempFilePath(c)
         b == Body(u)
     IN IF offset[c] = StreamFailsAt(u)
        THEN /\ Step(c, "pipeTo", "raised", "StreamError")
             /\ UNCHANGED <<fs, offset>>
        ELSE IF offset[c] < Len(b)
        THEN /\ fs' = IF orphan[c] THEN fs
                      ELSE Put(fs, t, File(WriteAt(fs[t].data, offset[c], b[offset[c] + 1])))
             /\ offset' = [offset EXCEPT ![c] = @ + 1]
             /\ IF offset[c] + 1 = Len(b)
                THEN Step(c, "pipeTo", After("pipeTo"), "none")
                ELSE UNCHANGED <<pc, err, trace>>
        ELSE /\ Step(c, "pipeTo", After("pipeTo"), "none")
             /\ UNCHANGED <<fs, offset>>
  /\ UNCHANGED <<denied, envVars, opVars, started, downloadUrl, destinationPath,
                 orphan, success, created>>

\* await unZip(tempFilePath, destinationPath): the platform's command is
\* launched (which raises when it is not there) and its exit status is
\* returned.  Only a whole archive can be extracted; an unsuccessful run may
\* have extracted some of the members.
UnzipStep(c) ==
  /\ pc[c] = "unZip"
  /\ LET t == tempFilePath(c)
         d == destinationPath[c]
     IN IF UnzipCommand(os) \notin installed
        THEN /\ Step(c, "unZip", "raised", "NotFound")
             /\ UNCHANGED <<fs, success, created>>
        ELSE \E ok \in BOOLEAN :
               \E es \in SUBSET (IF LookupError(fs, denied, t) = "none" /\ IsFile(fs, t)
                                 THEN Entries(fs[t].data) ELSE {}) :
                 /\ ok <=> (IsFile(fs, t) /\ IsArchive(fs[t].data) /\ es = Entries(fs[t].data))
                 /\ fs' = Extract(fs, d, es)
                 /\ created' = [created EXCEPT ![c] = @ \cup (DOMAIN fs' \ DOMAIN fs)]
                 /\ success' = [success EXCEPT ![c] = IF ok THEN "true" ELSE "false"]
                 /\ Step(c, "unZip", AfterUnZip(ok), "none")
  /\ UNCHANGED <<denied, envVars, opVars, started, downloadUrl, destinationPath,
                 offset, orphan>>

\* await Deno.remove(tempFilePath)
RemoveStep(c) ==
  /\ pc[c] = "remove"
  /\ LET t == tempFilePath(c)
         r == DenoRemove(fs, denied, t)
     IN /\ fs' = r.fs
        /\ pc' = [pc EXCEPT ![c] = AfterRemove(r.err)]
        /\ err' = [err EXCEPT ![c] = IF pc'[c] = "raised" THEN r.err ELSE "none"]
        /\ trace' = [trace EXCEPT ![c] = Append(@, "remove")]
        /\ orphan' = [o \in Calls |->
                        IF r.err = "none" /\ pc[o] = "pipeTo" /\ tempFilePath(o) = t
                        THEN TRUE ELSE orphan[o]]
  /\ UNCHANGED <<denied, envVars, opVars, started, downloadUrl, destinationPath,
                 offset, success, created>>

\* the caller has seen the outcome of the call
Finish(c) ==
  /\ pc[c] \in {"done", "raised"}
  /\ pc' = [pc EXCEPT ![c] = "idle"]
  /\ downloadUrl' = [downloadUrl EXCEPT ![c] = "none"]
  /\ destinationPath' = [destinationPath EXCEPT ![c] = <<>>]
  /\ offset' = [offset EXCEPT ![c] = 0]
  /\ orphan' = [orphan EXCEPT ![c] = FALSE]
  /\ success' = [success EXCEPT ![c] = "unset"]
  /\ err' = [err EXCEPT ![c] = "none"]
  /\ trace' = [trace EXCEPT ![c] = <<>>]
  /\ created' = [created EXCEPT ![c] = {}]
  /\ UNCHANGED <<fsVars, envVars, opVars, started>>

Run(c) ==
  \/ ExistsStep(c)
  \/ MkdirStep(c)
  \/ FetchStep(c)
  \/ OpenStep(c)
  \/ PipeStep(c)
  \/ UnzipStep(c)
  \/ RemoveStep(c)
  \/ Finish(c)

\* calls may overlap freely
Next ==
  \/ \E c \in Calls, u \in Urls, d \in Dests : Start(c, u, d)
  \/ \E c \in Calls : Run(c)

Spec == Init /\ [][Next]_vars

\* calls on one destination are serialised by the caller
NextAlone ==
  \/ \E c \in Calls, u \in Urls, d \in Dests : StartAlone(c, u, d)
  \/ \E c \in Calls : Run(c)

SpecAlone == Init /\ [][NextAlone]_vars

\* ------------------------------------------------------------ the wrappers
\* mkdir(path), remove(path), readTextFile(filePath)
mkdir(f, den, p) == DenoMkdir(f, den, p)
remove(f, den, p) == DenoRemove(f, den, p)
readTextFile(f, den, p) == DenoReadTextFile(f, den, p)

\* readJsonFile(filePath): JSON.parse(await readTextFile(filePath))
readJsonFile(f, den, p) ==
  LET t == readTextFile(f, den, p)
  IN IF t.err # "none" THEN [err |-> t.err, val |-> NoObject]
     ELSE JSONparse(t.val)

\* (variant) a failing file is skipped and the loop goes on
RECURSIVE JsonLoopSkipping(_, _, _, _, _)
JsonLoopSkipping(f, den, it, k, res) ==
  IF k > Len(it) THEN [err |-> "none", ret |-> res, reads |-> it]
  ELSE LET data == readJsonFile(f, den, it[k])
       IN JsonLoopSkipping(f, den, it, k + 1,
                           IF data.err # "none" THEN res ELSE Append(res, data.val))
readJsonFilesFromPathSkipping(f, den, it) == JsonLoopSkipping(f, den, it, 1, <<>>)

\* The loop of readJsonFilesFromPath over the files it yields, from the k-th
\* on: res is the result so far.  It gives the error raised or the array
\* returned, and the files that were read.
RECURSIVE JsonLoop(_, _, _, _, _)
JsonLoop(f, den, it, k, res) ==
  IF k > Len(it) THEN [err |-> "none", ret |-> res, reads |-> it]
  ELSE LET data == readJsonFile(f, den, it[k])
       IN IF data.err # "none"
          THEN [err |-> data.err, ret |-> <<>>, reads |-> SubSeq(it, 1, k)]
          ELSE JsonLoop(f, den, it, k + 1, Append(res, data.val))

\* readJsonFilesFromPath(filePath), given the order it of the glob iteration
readJsonFilesFromPath(f, den, it) == JsonLoop(f, den, it, 1, <<>>)

\* (variant) the file is not truncated: what the old contents had beyond the
\* new text stays
writeTextFileKeepingTail(f, den, p, c) ==
  LET r == DenoWriteTextFile(f, den, p, c)
  IN IF r.err = "none" /\ IsFile(f, p) /\ Len(f[p].data) > Len(c)
     THEN [err |-> "none",
           fs |-> Put(f, p, File(c \o SubSeq(f[p].data, Len(c) + 1, Len(f[p].data))))]
     ELSE r

\* writeTextFile(filePath, content)
writeTextFile(f, den, p, c) == DenoWriteTextFile(f, den, p, c)

\* writeJsonFile(filePath, object)
writeJsonFile(f, den, p, o) == writeTextFile(f, den, p, JSONstringify(o))

\* expandGlob(dir/*.json): the entries of dir, directories too, whose name
\* ends in .json; nothing when dir is missing; an error when dir cannot be
\* looked at.
JsonNames == {"a.json", "b.json"}
GlobError(f, den, d) ==
  LET s == DenoStat(f, den, d)
  IN IF s = "NotFound" THEN "none"
     ELSE IF s = "none" /\ d \in den THEN "PermissionDenied"
     ELSE s
GlobMatches(f, den, d) ==
  IF DenoStat(f, den, d) # "none" THEN {}
  ELSE {q \in DOMAIN f : Len(q) = Len(d) + 1 /\ IsPrefixOf(d, q)
                           /\ q[Len(q)] \in JsonNames}

\* every order in which the set S can be yielded
Orders(S) ==
  {o \in [1..Cardinality(S) -> S] : \A i, j \in 1..Cardinality(S) : o[i] = o[j] => i = j}

GlobDirs == {<<"d">>, <<"p">>}
PathArgs == {<<"d">>, <<"p">>, <<"p", "d">>, <<"d", "a.json">>, <<"d", "b.json">>}
Texts == {<<"Write">>, <<"x", "y">>, <<"{", "b">>}
Objects == {[title |-> "Write"], [title |-> "b"]}

WorldsFs ==
  Worlds \cup
  { [fs |-> (<<"d">> :> Dir) @@ (<<"d", "a.json">> :> File(<<"{", "a", "}">>))
             @@ (<<"d", "b.json">> :> File(<<"{", "b", "}">>)),
     denied |-> {}],
    [fs |-> (<<"d">> :> Dir) @@ (<<"d", "a.json">> :> File(<<"{", "a">>))
             @@ (<<"d", "b.json">> :> File(<<"{", "b", "}">>)),
     denied |-> {}],
    [fs |-> (<<"d">> :> Dir) @@ (<<"d", "a.json">> :> File(<<"{", "a", "}">>))
             @@ (<<"d", "b.json">> :> Dir),
     denied |-> {}] }

InitFs ==
  /\ \E w \in WorldsFs : fs = w.fs /\ denied = w.denied
  /\ os = "linux"
  /\ installed = {"unzip"}
  /\ InitCalls
  /\ InitOps

\* one finished call of a wrapper: what it was given, what it raised or
\* returned, and the filesystem it started from
Entry(op, p, arg, e, ret) ==
  [op |-> op, path |-> p, arg |-> arg, err |-> e, ret |-> ret, pre |-> fs,
   den |-> denied, iterator |-> <<>>, reads |-> <<>>]

CanCall == Len(log) < MaxOps

Exists(p) ==
  /\ CanCall
  /\ LET r == exists(fs, denied, p)
     IN log' = Append(log, Entry("exists", p, <<>>, r.err,
                                 IF r.err = "none" THEN <<r.ret>> ELSE <<>>))
  /\ UNCHANGED <<fsVars, envVars, callVars>>

Mkdir(p) ==
  /\ CanCall
  /\ LET r == mkdir(fs, denied, p)
     IN /\ fs' = r.fs
        /\ log' = Append(log, Entry("mkdir", p, <<>>, r.err, <<>>))
  /\ UNCHANGED <<denied, envVars, callVars>>

MkdirRecursive(p) ==
  /\ CanCall
  /\ LET r == mkdirRecursive(fs, denied, p)
     IN /\ fs' = r.fs
        /\ log' = Append(log, Entry("mkdirRecursive", p, <<>>, r.err, <<>>))
  /\ UNCHANGED <<denied, envVars, callVars>>

Remove(p) ==
  /\ CanCall
  /\ LET r == remove(fs, denied, p)
     IN /\ fs' = r.fs
        /\ denied' = IF r.err = "none" THEN denied \ {p} ELSE denied
        /\ log' = Append(log, Entry("remove", p, <<>>, r.err, <<>>))
  /\ UNCHANGED <<envVars, callVars>>

ReadTextFile(p) ==
  /\ CanCall
  /\ LET r == readTextFile(fs, denied, p)
     IN log' = Append(log, Entry("readTextFile", p, <<>>, r.err,
                                 IF r.err = "none" THEN <<r.val>> ELSE <<>>))
  /\ UNCHANGED <<fsVars, envVars, callVars>>

ReadJsonFile(p) ==
  /\ CanCall
  /\ LET r == readJsonFile(fs, denied, p)
     IN log' = Append(log, Entry("readJsonFile", p, <<>>, r.err,
                                 IF r.err = "none" THEN <<r.val>> ELSE <<>>))
  /\ UNCHANGED <<fsVars, envVars, callVars>>

WriteTextFile(p, c) ==
  /\ CanCall
  /\ LET r == writeTextFile(fs, denied, p, c)
     IN /\ fs' = r.fs
        /\ log' = Append(log, Entry("writeTextFile", p, c, r.err, <<>>))
  /\ UNCHANGED <<denied, envVars, callVars>>

WriteJsonFile(p, o) ==
  /\ CanCall
  /\ LET r == writeJsonFile(fs, denied, p, o)
     IN /\ fs' = r.fs
        /\ log' = Append(log, Entry("writeJsonFile", p, <<o>>, r.err, <<>>))
  /\ UNCHANGED <<denied, envVars, callVars>>

\* readJsonFilesFromPath(d/*.json); the glob yields its matches in an order
\* of the filesystem's choosing
ReadJsonFilesFromPath(d) ==
  /\ CanCall
  /\ IF GlobError(fs, denied, d) # "none"
     THEN log' = Append(log, Entry("readJsonFilesFromPath", d, <<>>,
                                   GlobError(fs, denied, d), <<>>))
     ELSE \E it \in Orders(GlobMatches(fs, denied, d)) :
            LET r == readJsonFilesFromPath(fs, denied, it)
            IN log' = Append(log, [Entry("readJsonFilesFromPath", d, <<>>, r.err, r.ret)
                                     EXCEPT !.iterator = it, !.reads = r.reads])
  /\ UNCHANGED <<fsVars, envVars, callVars>>

NextFs ==
  \/ \E p \in PathArgs : Exists(p)
  \/ \E p \in PathArgs : Mkdir(p)
  \/ \E p \in PathArgs : MkdirRecursive(p)
  \/ \E p \in PathArgs : Remove(p)
  \/ \E p \in PathArgs : ReadTextFile(p)
  \/ \E p \in PathArgs : ReadJsonFile(p)
  \/ \E p \in PathArgs, c \in Texts : WriteTextFile(p, c)
  \/ \E p \in PathArgs, o \in Objects : WriteJsonFile(p, o)
  \/ \E d \in GlobDirs : ReadJsonFilesFromPath(d)

SpecFs == InitFs /\ [][NextFs]_vars

\* ------------------------------------------------------------- properties
Last(q) == q[Len(q)]
Did(c, name) == \E i \in 1..Len(trace[c]) : trace[c][i] = name
TransportErrors == {"TypeError", "Response body is null"}

\* C1: when a call of unZipFromURL runs alone on its destination and unZip
\* has returned a value, true or false, the call goes on to the removal of
\* the temporary file and never raises; whenever the call has returned
\* normally the temporary file destinationPath/_temp_.zip does not exist.
C1_TempRemovedAfterUnZip ==
  \A c \in Calls :
    /\ success[c] \in {"true", "false"} => pc[c] \in {"remove", "done"}
    /\ pc[c] = "done" =>
         /\ tempFilePath(c) \notin DOMAIN fs
         /\ Last(trace[c]) = "remove"

C1_Witness ==
  \E c \in Calls :
    /\ pc[c] = "done"
    /\ success[c] = "false"
    /\ Did(c, "pipeTo")
    /\ tempFilePath(c) \notin DOMAIN fs

\* C2 (as stated): when a transport error is raised the call has created no
\* directory and no file.
C2_NoMutationBeforeTransportError ==
  \A c \in Calls : err[c] \in TransportErrors => created[c] = {}

\* C2 (amended): when a transport error is raised the temporary file has not
\* been opened and the call has created no file; the only paths it may have
\* created are the destination directory and its missing parents, as
\* directories, and none at all when the destination existed.
C2_OnlyDestinationBeforeTransportError ==
  \A c \in Calls :
    err[c] \in TransportErrors =>
      /\ ~Did(c, "open")
      /\ \A q \in created[c] :
           /\ IsPrefixOf(q, destinationPath[c])
           /\ IsDir(fs, q)
      /\ ~Did(c, "mkdirRecursive") => created[c] = {}

C2_Witness ==
  \E c \in Calls :
    /\ err[c] \in TransportErrors
    /\ pc[c] = "raised"
    /\ destinationPath[c] \in created[c]
    /\ Parent(destinationPath[c]) \in created[c]

\* C3: when unZip returns false inside unZipFromURL (the call running alone
\* on its destination), no error is raised for it: the call removes the
\* temporary file and returns normally, as it does after a successful
\* extraction.
C3_FailedExtractionNotRaised ==
  \A c \in Calls :
    success[c] = "false" =>
      /\ pc[c] # "raised"
      /\ err[c] = "none"
      /\ pc[c] # "unZip"
      /\ pc[c] = "done" => Did(c, "remove") /\ tempFilePath(c) \notin DOMAIN fs

C3_Witness ==
  \E c \in Calls :
    /\ success[c] = "false"
    /\ pc[c] = "done"
    /\ err[c] = "none"
    /\ Last(trace[c]) = "remove"

\* C4: when the response has no body, unZipFromURL fails with the error
\* "Response body is null" before the temporary file is opened or created,
\* and neither the extraction nor the removal is ever executed in that call.
C4_NullBodyFailsBeforeOpen ==
  \A c \in Calls :
    /\ (~HasBody(downloadUrl[c]) /\ Did(c, "fetch")) =>
         /\ pc[c] = "raised"
         /\ err[c] = "Response body is null"
         /\ Last(trace[c]) = "fetch"
         /\ ~Did(c, "open") /\ ~Did(c, "pipeTo")
         /\ ~Did(c, "unZip") /\ ~Did(c, "remove")
         /\ tempFilePath(c) \notin created[c]
    /\ err[c] = "Response body is null" => ~HasBody(downloadUrl[c])

C4_Witness ==
  \E c \in Calls :
    /\ pc[c] = "raised"
    /\ err[c] = "Response body is null"
    /\ trace[c] = <<"exists", "mkdirRecursive", "fetch">>

\* C5: every call uses the temporary path destinationPath/_temp_.zip, so two
\* calls share their temporary path exactly when they have the same
\* destination, and calls on different destinations never do.  (The witness
\* is the interleaving in which the transfer of one call is corrupted by a
\* concurrent call on the same destination.)
C5_SharedTempPathIffSameDestination ==
  \A c \in Calls :
    pc[c] # "idle" =>
      /\ Parent(tempFilePath(c)) = destinationPath[c]
      /\ Last(tempFilePath(c)) = TempName
      /\ \A o \in Calls \ {c} :
           pc[o] # "idle" =>
             (tempFilePath(c) = tempFilePath(o) <=> destinationPath[c] = destinationPath[o])
      /\ \A q \in created[c] :
           IsFile(fs, q) /\ Did(c, "open") /\ ~Did(c, "unZip") => q = tempFilePath(c)

\* the download of c is complete and not yet extracted, c created the
\* destination itself (so nothing was left there before), and yet the
\* temporary file is gone or does not hold what c downloaded, because of o
C5_Witness ==
  \E c \in Calls : \E o \in Calls \ {c} :
    /\ pc[c] = "unZip"
    /\ Did(c, "mkdirRecursive")
    /\ destinationPath[o] = destinationPath[c]
    /\ pc[o] # "idle"
    /\ Did(o, "open")
    /\ \/ tempFilePath(c) \notin DOMAIN fs
       \/ fs[tempFilePath(c)].data # Body(downloadUrl[c])

\* C7: when the final removal of the temporary file fails, the error of the
\* removal is what unZipFromURL raises (it is not caught), and the step
\* changes nothing in the filesystem: what was extracted stays.
C7_RemoveFailurePropagates ==
  [][\A c \in Calls :
       (/\ pc[c] = "remove"
        /\ pc'[c] # "remove"
        /\ DenoRemove(fs, denied, tempFilePath(c)).err # "none")
       => /\ pc'[c] = "raised"
          /\ err'[c] = DenoRemove(fs, denied, tempFilePath(c)).err
          /\ fs' = fs]_vars

C7_Witness ==
  \E c \in Calls :
    /\ pc[c] = "raised"
    /\ Last(trace[c]) = "remove"
    /\ success[c] = "true"
    /\ err[c] = "NotFound"
    /\ \E q \in created[c] : q # tempFilePath(c) /\ IsFile(fs, q)

\* the filesystem after the i-th call of the log
Post(i) == IF i = Len(log) THEN fs ELSE log[i + 1].pre

\* C6: exists(P) has exactly three outcomes, decided by the stat of P: true
\* when the stat succeeds, false when it fails with NotFound, and for any
\* other failure the same error raised again.
C6_ExistsThreeOutcomes ==
  \A i \in 1..Len(log) :
    log[i].op = "exists" =>
      LET s == DenoStat(log[i].pre, log[i].den, log[i].path)
      IN /\ s = "none" => log[i].err = "none" /\ log[i].ret = <<TRUE>>
         /\ s = "NotFound" => log[i].err = "none" /\ log[i].ret = <<FALSE>>
         /\ s \notin {"none", "NotFound"} => log[i].err = s /\ log[i].ret = <<>>
         /\ Post(i) = log[i].pre

C6_Witness ==
  /\ Len(log) = 2
  /\ log[1].op = "exists" /\ log[1].err = "PermissionDenied"
  /\ log[2].op = "exists" /\ log[2].err = "none" /\ log[2].ret = <<FALSE>>

\* C8: a second mkdir(P) right after a successful mkdir(P) raises
\* AlreadyExists and leaves the directory in place; mkdirRecursive(P) on a
\* directory that exists (exists(P) is true) raises nothing and changes
\* nothing; after a successful mkdirRecursive(P), P and all its parents are
\* directories.
C8_MkdirIdempotence ==
  \A i \in 1..Len(log) :
    LET P == log[i].path
    IN /\ (/\ log[i].op = "mkdir"
           /\ i > 1
           /\ log[i - 1].op = "mkdir"
           /\ log[i - 1].path = P
           /\ log[i - 1].err = "none")
          => /\ log[i].err = "AlreadyExists"
             /\ Post(i) = log[i].pre
             /\ IsDir(Post(i), P)
       /\ (/\ log[i].op = "mkdirRecursive"
           /\ IsDir(log[i].pre, P)
           /\ DenoStat(log[i].pre, log[i].den, P) = "none")
          => /\ log[i].err = "none"
             /\ Post(i) = log[i].pre
       /\ (log[i].op = "mkdirRecursive" /\ log[i].err = "none")
          => /\ \A n \in 1..Len(P) : IsDir(Post(i), Prefix(P, n))
             /\ \A q \in DOMAIN log[i].pre :
                  q \in DOMAIN Post(i) /\ Post(i)[q] = log[i].pre[q]
             /\ \A q \in DOMAIN Post(i) \ DOMAIN log[i].pre : IsPrefixOf(q, P)

\* mkdirRecursive made P with its missing parent, and then again changed
\* nothing
C8_Witness ==
  /\ Len(log) = 2
  /\ log[1].op = "mkdirRecursive" /\ log[1].err = "none"
  /\ Len(log[1].path) = 2
  /\ Parent(log[1].path) \notin DOMAIN log[1].pre
  /\ log[2].op = "mkdirRecursive" /\ log[2].err = "none"
  /\ log[2].path = log[1].path
  /\ fs = log[2].pre

\* a second mkdir raised AlreadyExists
C8_MkdirTwice ==
  /\ Len(log) = 2
  /\ log[1].op = "mkdir" /\ log[1].err = "none"
  /\ log[2].op = "mkdir" /\ log[2].path = log[1].path
  /\ log[2].err = "AlreadyExists"

\* C9: after writeTextFile(P, c) succeeds the file P holds exactly c and
\* nothing else has changed, so a readTextFile(P) that follows returns
\* exactly c whatever P held before; when the parent directory of P does not
\* exist, writeTextFile raises and creates nothing.
C9_WriteReadRoundTrip ==
  \A i \in 1..Len(log) :
    LET P == log[i].path
    IN /\ (log[i].op = "writeTextFile" /\ log[i].err = "none")
          => /\ IsFile(Post(i), P) /\ Post(i)[P].data = log[i].arg
             /\ DOMAIN Post(i) = DOMAIN log[i].pre \cup {P}
             /\ \A q \in DOMAIN log[i].pre \ {P} : Post(i)[q] = log[i].pre[q]
       /\ (/\ log[i].op = "readTextFile"
           /\ i > 1
           /\ log[i - 1].op = "writeTextFile"
           /\ log[i - 1].path = P
           /\ log[i - 1].err = "none")
          => /\ log[i].err = "none"
             /\ log[i].ret = <<log[i - 1].arg>>
       /\ (/\ log[i].op = "writeTextFile"
           /\ IsDir(log[i].pre, Parent(P))
           /\ ~IsDir(log[i].pre, P)
           /\ LookupError(log[i].pre, log[i].den, P) = "none")
          => log[i].err = "none"
       /\ (log[i].op = "writeTextFile" /\ ~IsDir(log[i].pre, Parent(P)))
          => /\ log[i].err # "none"
             /\ Post(i) = log[i].pre

\* a text was written over a longer, different one and read back
C9_Witness ==
  /\ Len(log) = 2
  /\ log[1].op = "writeTextFile" /\ log[1].err = "none"
  /\ IsFile(log[1].pre, log[1].path)
  /\ Len(log[1].pre[log[1].path].data) > Len(log[1].arg)
  /\ log[2].op = "readTextFile" /\ log[2].path = log[1].path
  /\ log[2].ret = <<log[1].arg>>

\* C10: readJsonFilesFromPath returns one parsed object per yielded file, in
\* the order of the iteration; when reading or parsing a yielded file fails,
\* that first failure is raised, nothing is returned, and no later file is
\* read.
C10_GlobOrderAndFirstFailure ==
  \A i \in 1..Len(log) :
    log[i].op = "readJsonFilesFromPath" =>
      LET it == log[i].iterator
          f == log[i].pre
          Text(k) == DenoReadTextFile(f, log[i].den, it[k])
          Fails(k) == Text(k).err # "none" \/ JSONparse(Text(k).val).err # "none"
          Failure(k) == IF Text(k).err # "none" THEN Text(k).err
                        ELSE JSONparse(Text(k).val).err
          bad == {k \in 1..Len(it) : Fails(k)}
      IN /\ Post(i) = f
         /\ bad = {} /\ GlobError(f, log[i].den, log[i].path) = "none" =>
              /\ log[i].err = "none"
              /\ Len(log[i].ret) = Len(it)
              /\ \A k \in 1..Len(it) : log[i].ret[k] = JSONparse(f[it[k]].data).val
              /\ log[i].reads = it
         /\ bad # {} =>
              LET k == CHOOSE j \in bad : \A m \in bad : j <= m
              IN /\ log[i].err = Failure(k)
                 /\ log[i].ret = <<>>
                 /\ log[i].reads = SubSeq(it, 1, k)

\* two files were yielded, the first failed to parse, the second was not read
C10_Witness ==
  \E i \in 1..Len(log) :
    /\ log[i].op = "readJsonFilesFromPath"
    /\ Len(log[i].iterator) = 2
    /\ log[i].err = "SyntaxError"
    /\ log[i].reads = <<log[i].iterator[1]>>
    /\ log[i].ret = <<>>

\* two files were yielded and parsed, b.json before a.json
C10_Unsorted ==
  \E i \in 1..Len(log) :
    /\ log[i].op = "readJsonFilesFromPath"
    /\ log[i].err = "none"
    /\ log[i].iterator = <<(<<"d", "b.json">>), (<<"d", "a.json">>)>>
    /\ log[i].ret = <<[title |-> "b"], [title |-> "a"]>>

\* C11: the removal of the temporary file is reached only when both the
\* download and unZip have returned without raising.  When the body stream
\* fails after _temp_.zip was opened, or when the command of unZip cannot be
\* launched, the call (running alone on its destination) ends raised with
\* that error, no removal is executed, and _temp_.zip is left behind in the
\* destination directory.
C11_NoCleanupOnRaise ==
  \A c \in Calls :
    /\ (pc[c] = "remove" \/ Did(c, "remove")) =>
         /\ Did(c, "pipeTo") /\ offset[c] = Len(Body(downloadUrl[c]))
         /\ Did(c, "unZip") /\ success[c] \in {"true", "false"}
    /\ (err[c] # "none" /\ Last(trace[c]) \in {"pipeTo", "unZip"}) =>
         /\ pc[c] = "raised"
         /\ err[c] = (IF Last(trace[c]) = "pipeTo" THEN "StreamError" ELSE "NotFound")
         /\ Did(c, "open")
         /\ ~Did(c, "remove")
         /\ IsFile(fs, tempFilePath(c))
         /\ Parent(tempFilePath(c)) = destinationPath[c]

\* the body stream failed after the first chunk was written: the call has
\* raised and the partly written file it created is still there
C11_Witness ==
  \E c \in Calls :
    /\ pc[c] = "raised"
    /\ err[c] = "StreamError"
    /\ tempFilePath(c) \in created[c]
    /\ IsFile(fs, tempFilePath(c))
    /\ fs[tempFilePath(c)].data = <<"A1">>

\* unZip could not be launched: the whole download is left behind
C11_LaunchFailure ==
  \E c \in Calls :
    /\ pc[c] = "raised"
    /\ err[c] = "NotFound"
    /\ Last(trace[c]) = "unZip"
    /\ IsFile(fs, tempFilePath(c))
    /\ fs[tempFilePath(c)].data = Body(downloadUrl[c])

====
